---- MODULE Spec2Model ----
(***************************************************************************)
(* Spectron backend: vegetation-change analysis.                           *)
(*                                                                         *)
(* The module holds state machines over disjoint groups of variables,      *)
(* each with a specification of its own:                                   *)
(*   SpecStore  - DatabaseHandler (database.py) and the pipeline           *)
(*                perform_ndvi_analysis (analysis.py) that feeds it;       *)
(*   SpecId     - DatabaseHandler.generate_analysis_id on string inputs;   *)
(*   SpecWriters - two threads in DatabaseHandler.save_analysis_results;   *)
(*   SpecFetch  - read_band_with_retry (fetch.py);                         *)
(*   SpecSelect - search_items (search.py) and find_best_image_pair        *)
(*                (analysis.py);                                           *)
(*   SpecNdvi   - compute_ndvi and diff_ndvi (ndvi.py);                    *)
(*   SpecReadBand - read_band (fetch.py);                                  *)
(*   SpecEncode - save_ndvi_diff and save_individual_images                *)
(*                (visualize.py);                                          *)
(*   SpecGradient - the two synthesized gradients (visualize.py).          *)
(***************************************************************************)
EXTENDS Integers, Sequences, FiniteSets, TLC

VARIABLES
    \* ---- the store: table ndvi_analysis.image_results and db_handler
    rows,        \* the committed rows of the table (a set of records)
    conn,        \* db_handler.connection: "none" | "open" | "closed"
    clock,       \* the database's CURRENT_TIMESTAMP, a counter
    \* ---- perform_ndvi_analysis
    pc,          \* the stage the running analysis is at, "idle" when none runs
    run,         \* the locals of the running analysis
    \* ---- what the last operation returned or raised
    ret,
    \* ---- history
    pre_rows,    \* the table as it was when the last operation started
    lastSaved,   \* analysis_id -> arguments and timestamp of its last successful save
    issued,      \* request tuple -> the id first returned for it, and when
    \* ---- generate_analysis_id on two request tuples
    id_pc, id_a, id_b, id_out,
    \* ---- read_band_with_retry
    f_pc, f_max_retries, f_fail, f_attempt, f_calls, f_sleeps, f_errs, f_result,
    \* ---- find_best_image_pair
    s_pc, s_catalog, s_args, s_search_calls, s_out,
    \* ---- compute_ndvi and diff_ndvi
    n_pc, n_bands, n_out,
    \* ---- read_band
    b_pc, b_src, b_max_size, b_out,
    \* ---- save_ndvi_diff and save_individual_images
    e_pc, e_mode, e_raster, e_normalized, e_tried, e_colored, e_out,
    \* ---- two threads calling db_handler.save_analysis_results
    w_pc,        \* thread -> the line of save_analysis_results it is at
    w_args,      \* thread -> the arguments of its call
    w_fault,     \* thread -> the step of its call that fails, if any
    w_rows,      \* the committed rows of the table
    w_conn,      \* db_handler.connection and db_handler.cursor
    w_clock,     \* the database's CURRENT_TIMESTAMP
    w_out,       \* thread -> what its call returned or raised
    w_hist,      \* history: who executed last, whose writes a call discarded or published
    \* ---- the synthesized gradients, one pixel at a time
    g_pc, g_mode, g_val, g_out

storeVars == <<rows, conn, clock, pc, run, ret, pre_rows, lastSaved, issued>>
idVars == <<id_pc, id_a, id_b, id_out>>
fetchVars == <<f_pc, f_max_retries, f_fail, f_attempt, f_calls, f_sleeps, f_errs, f_result>>
selVars == <<s_pc, s_catalog, s_args, s_search_calls, s_out>>
ndviVars == <<n_pc, n_bands, n_out>>
bandVars == <<b_pc, b_src, b_max_size, b_out>>
encVars == <<e_pc, e_mode, e_raster, e_normalized, e_tried, e_colored, e_out>>
rasterVars == <<ndviVars, bandVars, encVars>>
writerVars == <<w_pc, w_args, w_fault, w_rows, w_conn, w_clock, w_out, w_hist>>
gradVars == <<g_pc, g_mode, g_val, g_out>>
vars == <<storeVars, idVars, fetchVars, selVars, rasterVars, writerVars, gradVars>>
\* What the store's actions leave alone.
otherVars == <<idVars, fetchVars, selVars, rasterVars, writerVars, gradVars>>

-----------------------------------------------------------------------------
(* Python's None and a present value.                                      *)
None == [isNone |-> TRUE]
Some(v) == [isNone |-> FALSE, val |-> v]

-----------------------------------------------------------------------------
(* Bounds of the model.                                                    *)

\* The number of save statements the database executes in one behaviour.
MaxClock == 3
\* The largest limit passed to list_analyses.
MaxLimit == 2

-----------------------------------------------------------------------------
(* DatabaseHandler.generate_analysis_id                                    *)

\* repr() of a float with an integral value: 1.0 -> "1.0"
PyFloatRepr(n) == ToString(n) \o ".0"

\* str() of a list of floats: "[1.0, 2.0]"
RECURSIVE PyJoin(_)
PyJoin(xs) ==
    IF xs = <<>> THEN ""
    ELSE IF Len(xs) = 1 THEN PyFloatRepr(xs[1])
    ELSE PyFloatRepr(xs[1]) \o ", " \o PyJoin(Tail(xs))
PyListStr(xs) == "[" \o PyJoin(xs) \o "]"

\* f"{bbox}_{start_date}_{end_date}_{selection_mode}"
params_str(bbox, start_date, end_date, selection_mode) ==
    PyListStr(bbox) \o "_" \o start_date \o "_" \o end_date \o "_" \o selection_mode

\* hashlib.md5(s.encode()).hexdigest()[:12], an injective function of s: the
\* digest is represented by the string it was computed from.
md5_hexdigest12(s) == [md5_of |-> s]

\* A plausible bug: an id that also depends on when it is generated (uuid, time).
generate_analysis_id_timed(bbox, start_date, end_date, selection_mode) ==
    [prefix |-> "ndvi_",
     digest |-> md5_hexdigest12(params_str(bbox, start_date, end_date, selection_mode)
                                \o "_" \o ToString(clock))]

generate_analysis_id(bbox, start_date, end_date, selection_mode) ==
    [prefix |-> "ndvi_",
     digest |-> md5_hexdigest12(params_str(bbox, start_date, end_date, selection_mode))]

-----------------------------------------------------------------------------
(* Data the store specification draws from.                                *)

\* The request tuples (bbox, start_date, end_date, selection_mode).
Requests ==
    { [bbox |-> <<77, 28, 78, 29>>, start_date |-> "2022-06-01",
       end_date |-> "2024-06-30", selection_mode |-> m] : m \in {"smart", "exact"} }

\* The other parameters of perform_ndvi_analysis.
OtherParams ==
    { [max_cloud_cover |-> 15, max_size |-> 1024, max_date_deviation_days |-> 30],
      [max_cloud_cover |-> 20, max_size |-> 512, max_date_deviation_days |-> 10] }

\* Scene records: id, capture datetime (date is a day number, valid says whether
\* the string parses as an ISO date) and cloud cover.
Scene(i, d, c) == [id |-> i, datetime |-> [date |-> d, valid |-> TRUE], cloud_cover |-> c]
S1 == Scene(1, 10, 5)
S2 == Scene(2, 20, 3)
S3 == Scene(3, 30, 8)
NoScene == Scene(0, 0, 0)

\* What find_best_image_pair can return to the pipeline: (early, late).
SelectionResults == { <<S1, S2>>, <<S2, S3>> }

\* Arguments of a direct call of save_analysis_results: image metadata, results
\* and the three images, any byte strings (the empty one included).
DirectSaves ==
    { [early_image_data |-> [id |-> 1, datetime |-> [date |-> 10, valid |-> TRUE], cloud_cover |-> 5],
       late_image_data |-> [id |-> 3, datetime |-> [date |-> 30, valid |-> TRUE], cloud_cover |-> 8],
       analysis_results |-> [time_gap_days |-> 20],
       early_ndvi_image |-> <<>>, late_ndvi_image |-> <<7>>, difference_image |-> <<9>>],
      [early_image_data |-> [id |-> 2, datetime |-> [date |-> 20, valid |-> TRUE], cloud_cover |-> 3],
       late_image_data |-> [id |-> 3, datetime |-> [date |-> 30, valid |-> TRUE], cloud_cover |-> 8],
       analysis_results |-> [time_gap_days |-> 10],
       early_ndvi_image |-> <<1, 2>>, late_ndvi_image |-> <<3>>, difference_image |-> <<4, 5>>],
      [early_image_data |-> [id |-> 1, datetime |-> [date |-> 0, valid |-> FALSE], cloud_cover |-> 5],
       late_image_data |-> [id |-> 3, datetime |-> [date |-> 30, valid |-> TRUE], cloud_cover |-> 8],
       analysis_results |-> [time_gap_days |-> 20],
       early_ndvi_image |-> <<6>>, late_ndvi_image |-> <<7>>, difference_image |-> <<9>>] }

Kinds == {"early", "late", "difference"}
\* image_type values a caller can pass; "composite" is not a column.
ImageTypes == Kinds \cup {"composite"}

\* What can go wrong inside one save_analysis_results call.
SaveFaults == {"none", "connect", "execute", "commit"}

-----------------------------------------------------------------------------
(* Conversions used by the store.                                          *)

\* json.dumps / json.loads
json_dumps(x) == [json |-> x]
json_loads(s) == s.json

\* datetime.fromisoformat(meta['datetime'][:10]): the date part, when it parses.
ParsesAsDate(meta) == meta.datetime.valid
DateOf(meta) == meta.datetime.date

-----------------------------------------------------------------------------
(* The table.                                                              *)

\* The row the INSERT of save_analysis_results offers at timestamp now.
\* created_at and updated_at are not in the column list: the table's defaults
\* give both the statement's CURRENT_TIMESTAMP.
NewRow(id, req, a, now) ==
    [analysis_id |-> id,
     bbox |-> json_dumps(req.bbox),
     start_date |-> req.start_date,
     end_date |-> req.end_date,
     early_image_date |-> DateOf(a.early_image_data),
     late_image_date |-> DateOf(a.late_image_data),
     selection_mode |-> req.selection_mode,
     early_ndvi_image |-> a.early_ndvi_image,
     late_ndvi_image |-> a.late_ndvi_image,
     difference_image |-> a.difference_image,
     early_ndvi_metadata |-> json_dumps(a.early_image_data),
     late_ndvi_metadata |-> json_dumps(a.late_image_data),
     analysis_results |-> json_dumps(a.analysis_results),
     created_at |-> now,
     updated_at |-> now]

\* A plausible bug: a plain INSERT with no conflict clause on a table without
\* the unique key.
UpsertAppends(tbl, new) == tbl \cup {new}

\* A plausible bug: the conflicting row is replaced whole (DELETE then INSERT),
\* so that created_at is reset.
UpsertReplaces(tbl, new) == {r \in tbl : r.analysis_id # new.analysis_id} \cup {new}

\* INSERT ... ON CONFLICT (analysis_id) DO UPDATE SET <seven columns>
Upsert(tbl, new) ==
    IF \E r \in tbl : r.analysis_id = new.analysis_id
    THEN { IF r.analysis_id = new.analysis_id
           THEN [r EXCEPT !.early_ndvi_image = new.early_ndvi_image,
                          !.late_ndvi_image = new.late_ndvi_image,
                          !.difference_image = new.difference_image,
                          !.early_ndvi_metadata = new.early_ndvi_metadata,
                          !.late_ndvi_metadata = new.late_ndvi_metadata,
                          !.analysis_results = new.analysis_results,
                          !.updated_at = new.updated_at]
           ELSE r : r \in tbl }
    ELSE tbl \cup {new}

\* A plausible bug: the connection in autocommit mode, so that the statement's
\* effect survives the rollback of the except branch.
RollbackKeepsWrite(committed, pending) == pending

\* connection.rollback(): the uncommitted effect of the statement is dropped.
Rollback(committed, pending) == committed

\* connection.commit()
Commit(committed, pending) == pending

-----------------------------------------------------------------------------
(* DatabaseHandler operations, as functions of the state they read.        *)

NoReq == [bbox |-> <<>>, start_date |-> "", end_date |-> "", selection_mode |-> ""]
NoId == [prefix |-> "", digest |-> md5_hexdigest12("")]
ReqOf(r) == [bbox |-> r.bbox, start_date |-> r.start_date, end_date |-> r.end_date,
             selection_mode |-> r.selection_mode]
IdOf(r) == generate_analysis_id(r.bbox, r.start_date, r.end_date, r.selection_mode)

\* `if not self.connection: self.connect()`: a closed connection object is
\* still truthy, so only "none" connects.
EnsureConnected(c) == IF c = "none" THEN "open" ELSE c

\* save_analysis_results(bbox, ..., difference_image) started with table tbl,
\* connection c and database time t; fault says which step, if any, fails.
\* Result: what is raised or returned, and the table, connection and time after.
save_analysis_results(tbl, c, t, req, a, fault) ==
    LET c1 == EnsureConnected(c)
        id == generate_analysis_id(req.bbox, req.start_date, req.end_date, req.selection_mode)
        now == t + 1
        pending == Upsert(tbl, NewRow(id, req, a, now))
    IN  IF c = "none" /\ fault = "connect"
        THEN \* connect() raises before the try block
             [raised |-> TRUE, err |-> "connect", val |-> None,
              rows |-> tbl, conn |-> "none", clock |-> t]
        ELSE IF ~(ParsesAsDate(a.early_image_data) /\ ParsesAsDate(a.late_image_data))
        THEN \* fromisoformat raises; except: rollback of an empty transaction
             [raised |-> TRUE, err |-> "bad_date", val |-> None,
              rows |-> tbl, conn |-> c1, clock |-> t]
        ELSE IF c1 = "closed"
        THEN \* cursor.execute on a closed connection raises, and so does rollback
             [raised |-> TRUE, err |-> "closed", val |-> None,
              rows |-> tbl, conn |-> "closed", clock |-> t]
        ELSE IF fault = "execute"
        THEN \* the statement fails and has no effect; except: rollback
             [raised |-> TRUE, err |-> "execute", val |-> None,
              rows |-> Rollback(tbl, tbl), conn |-> c1, clock |-> t]
        ELSE IF fault = "commit"
        THEN \* the statement ran, commit raises; except: rollback
             [raised |-> TRUE, err |-> "commit", val |-> None,
              rows |-> Rollback(tbl, pending), conn |-> c1, clock |-> t]
        ELSE \* execute, commit, fetchone()[0] is the RETURNING analysis_id
             [raised |-> FALSE, err |-> "", val |-> Some(id),
              rows |-> Commit(tbl, pending), conn |-> c1, clock |-> now]

\* The dict get_analysis_results builds from a row.
ResultDict(r) ==
    [analysis_id |-> r.analysis_id,
     bbox |-> json_loads(r.bbox),
     start_date |-> r.start_date,
     end_date |-> r.end_date,
     early_image_date |-> r.early_image_date,
     late_image_date |-> r.late_image_date,
     selection_mode |-> r.selection_mode,
     early_ndvi_metadata |-> json_loads(r.early_ndvi_metadata),
     late_ndvi_metadata |-> json_loads(r.late_ndvi_metadata),
     analysis_results |-> json_loads(r.analysis_results),
     created_at |-> r.created_at,
     updated_at |-> r.updated_at]

Matching(tbl, id) == {r \in tbl : r.analysis_id = id}

\* A plausible bug: indexing the fetched row before testing it, which raises
\* a TypeError when fetchone() returned None.
get_analysis_results_unchecked(tbl, id) ==
    IF Matching(tbl, id) # {}
    THEN [raised |-> FALSE, err |-> "",
          val |-> Some(ResultDict(CHOOSE r \in Matching(tbl, id) : TRUE))]
    ELSE [raised |-> TRUE, err |-> "type_error", val |-> None]

\* get_analysis_results, the statement executed on a working connection:
\* fetchone() and the `if result:` branch.
get_analysis_results(tbl, id) ==
    IF Matching(tbl, id) # {}
    THEN [raised |-> FALSE, err |-> "",
          val |-> Some(ResultDict(CHOOSE r \in Matching(tbl, id) : TRUE))]
    ELSE [raised |-> FALSE, err |-> "", val |-> None]

\* column_map of get_image_data
ColumnOf(r, image_type) ==
    CASE image_type = "early" -> r.early_ndvi_image
      [] image_type = "late" -> r.late_ndvi_image
      [] image_type = "difference" -> r.difference_image

\* get_image_data, the statement executed on a working connection: an unknown
\* image_type raises ValueError; `if result and result[0]` is false for no row
\* and for a column of length 0; otherwise bytes(result[0]).
get_image_data(tbl, id, image_type) ==
    IF image_type \notin Kinds
    THEN [raised |-> TRUE, err |-> "value_error", val |-> None]
    ELSE IF Matching(tbl, id) # {}
            /\ Len(ColumnOf(CHOOSE r \in Matching(tbl, id) : TRUE, image_type)) > 0
    THEN [raised |-> FALSE, err |-> "",
          val |-> Some(ColumnOf(CHOOSE r \in Matching(tbl, id) : TRUE, image_type))]
    ELSE [raised |-> FALSE, err |-> "", val |-> None]

\* The summary list_analyses builds from a row.
SummaryDict(r) ==
    [analysis_id |-> r.analysis_id,
     bbox |-> json_loads(r.bbox),
     start_date |-> r.start_date,
     end_date |-> r.end_date,
     early_image_date |-> r.early_image_date,
     late_image_date |-> r.late_image_date,
     selection_mode |-> r.selection_mode,
     created_at |-> r.created_at,
     updated_at |-> r.updated_at]

\* ORDER BY created_at DESC LIMIT n
RECURSIVE OrderByCreatedDesc(_, _)
OrderByCreatedDesc(tbl, n) ==
    IF tbl = {} \/ n = 0 THEN <<>>
    ELSE LET top == CHOOSE r \in tbl : \A q \in tbl : q.created_at <= r.created_at
         IN  <<top>> \o OrderByCreatedDesc(tbl \ {top}, n - 1)

RECURSIVE MapSummary(_)
MapSummary(rs) == IF rs = <<>> THEN <<>> ELSE <<SummaryDict(Head(rs))>> \o MapSummary(Tail(rs))

\* list_analyses, the statement executed on a working connection.
list_analyses(tbl, limit) ==
    [raised |-> FALSE, err |-> "", val |-> Some(MapSummary(OrderByCreatedDesc(tbl, limit)))]

-----------------------------------------------------------------------------
(* The store specification: the pipeline and the handler's operations.     *)
(* The request handlers are coroutines that never await, so one operation  *)
(* runs to its end before the next starts: the handler's operations are    *)
(* taken only while no analysis is running.                                *)

NoArg == [id |-> NoId, kind |-> "", limit |-> 0, req |-> NoReq, others |-> None, conn0 |-> ""]
NoRet == [op |-> "", raised |-> FALSE, err |-> "", val |-> None, arg |-> NoArg]
NoRun == [req |-> NoReq, others |-> None, early |-> NoScene, late |-> NoScene,
          bands |-> <<>>, ndvi |-> <<>>, images |-> <<>>]

\* The ids a caller asks for: those of the requests and one never stored.
MissingId == [prefix |-> "ndvi_", digest |-> md5_hexdigest12("unknown")]
AskedIds == {IdOf(r) : r \in Requests} \cup {MissingId}

StoreInit ==
    /\ rows = {}
    /\ conn = "none"
    /\ clock = 0
    /\ pc = "idle"
    /\ run = NoRun
    /\ ret = NoRet
    /\ pre_rows = {}
    /\ lastSaved = << >>
    /\ issued = << >>

\* An operation that raised at stage err and wrote nothing.
Abort(op, err) ==
    /\ pc' = "idle"
    /\ run' = NoRun
    /\ ret' = [op |-> op, raised |-> TRUE, err |-> err, val |-> None, arg |-> NoArg]
    /\ UNCHANGED <<rows, conn, clock, pre_rows, lastSaved, issued>>

\* perform_ndvi_analysis is called.
StartAnalysis ==
    /\ pc = "idle"
    /\ clock < MaxClock
    /\ \E req \in Requests, o \in OtherParams :
          run' = [NoRun EXCEPT !.req = req, !.others = Some(o)]
    /\ pc' = "find_pair"
    /\ ret' = NoRet
    /\ pre_rows' = rows
    /\ UNCHANGED <<rows, conn, clock, lastSaved, issued>>
    /\ UNCHANGED otherVars

\* Step 1: find_best_image_pair returns a pair or raises.
FindPair ==
    /\ pc = "find_pair"
    /\ \/ \E p \in SelectionResults :
             /\ run' = [run EXCEPT !.early = p[1], !.late = p[2]]
             /\ pc' = "sign"
             /\ UNCHANGED <<rows, conn, clock, ret, pre_rows, lastSaved, issued>>
       \/ Abort("perform_ndvi_analysis", "selection")
    /\ UNCHANGED otherVars

\* Step 2: get_band_urls signs both items or raises.
SignUrls ==
    /\ pc = "sign"
    /\ \/ /\ pc' = "fetch"
          /\ UNCHANGED <<rows, conn, clock, run, ret, pre_rows, lastSaved, issued>>
       \/ Abort("perform_ndvi_analysis", "signing")
    /\ UNCHANGED otherVars

\* A plausible bug: the late item's bands read before the early item's.
BandOfLateFirst(r, k) ==
    (IF k <= 2 THEN r.late.id ELSE r.early.id) * 10 + (IF k % 2 = 1 THEN 4 ELSE 8)

\* The band the k-th read fetches: B04 then B08 of the early item, then of the late.
BandOf(r, k) ==
    (IF k <= 2 THEN r.early.id ELSE r.late.id) * 10 + (IF k % 2 = 1 THEN 4 ELSE 8)

\* Step 3: the next of the four read_band_with_retry calls returns or raises.
FetchBand ==
    /\ pc = "fetch"
    /\ \/ /\ run' = [run EXCEPT !.bands = Append(@, BandOf(run, Len(@) + 1))]
          /\ pc' = IF Len(run.bands) = 3 THEN "compute" ELSE "fetch"
          /\ UNCHANGED <<rows, conn, clock, ret, pre_rows, lastSaved, issued>>
       \/ Abort("perform_ndvi_analysis", "fetch")
    /\ UNCHANGED otherVars

\* Step 4: compute_ndvi twice and diff_ndvi, or a raise (bands of unequal shape).
ComputeIndex ==
    /\ pc = "compute"
    /\ \/ /\ run' = [run EXCEPT !.ndvi = << <<run.bands[1], run.bands[2]>>,
                                            <<run.bands[3], run.bands[4]>>,
                                            run.bands >>]
          /\ pc' = "encode"
          /\ UNCHANGED <<rows, conn, clock, ret, pre_rows, lastSaved, issued>>
       \/ Abort("perform_ndvi_analysis", "compute")
    /\ UNCHANGED otherVars

\* Step 5: the next of the three encodes returns the image bytes or raises.
Encode ==
    /\ pc = "encode"
    /\ \/ /\ run' = [run EXCEPT !.images = Append(@, <<137>> \o run.ndvi[Len(@) + 1])]
          /\ pc' = IF Len(run.images) = 2 THEN "save" ELSE "encode"
          /\ UNCHANGED <<rows, conn, clock, ret, pre_rows, lastSaved, issued>>
       \/ Abort("perform_ndvi_analysis", "encode")
    /\ UNCHANGED otherVars

\* The arguments the pipeline passes to save_analysis_results.
PipelineSaveArgs(r) ==
    [early_image_data |-> r.early,
     late_image_data |-> r.late,
     analysis_results |-> [time_gap_days |-> r.late.datetime.date - r.early.datetime.date],
     early_ndvi_image |-> r.images[1],
     late_ndvi_image |-> r.images[2],
     difference_image |-> r.images[3]]

\* What a save_analysis_results call leaves behind.
SaveEffect(op, req, others, a, fault) ==
    LET out == save_analysis_results(rows, conn, clock, req, a, fault)
        t == ReqOf(req)
    IN  /\ rows' = out.rows
        /\ conn' = out.conn
        /\ clock' = out.clock
        /\ ret' = [op |-> op, raised |-> out.raised, err |-> out.err, val |-> out.val,
                   arg |-> [NoArg EXCEPT !.req = t, !.others = others, !.conn0 = conn]]
        /\ lastSaved' =
             IF out.raised THEN lastSaved
             ELSE LET id == out.val.val
                      was == Matching(rows, id)
                  IN  [x \in DOMAIN lastSaved \cup {id} |->
                         IF x = id
                         THEN [args |-> a, at |-> out.clock,
                               count |-> IF id \in DOMAIN lastSaved
                                         THEN lastSaved[id].count + 1 ELSE 1,
                               changed |-> \E r \in was :
                                              r.early_ndvi_image # a.early_ndvi_image]
                         ELSE lastSaved[x]]
        /\ issued' =
             IF out.raised \/ t \in DOMAIN issued THEN issued
             ELSE [x \in DOMAIN issued \cup {t} |->
                     IF x = t THEN [id |-> out.val.val, at |-> out.clock, others |-> others,
                                    conn0 |-> conn, stored |-> Cardinality(rows)]
                     ELSE issued[x]]

\* Last step: save_analysis_results, then the result dict is returned.
SaveResults ==
    /\ pc = "save"
    /\ \E fault \in SaveFaults :
          /\ fault = "connect" => conn = "none"
          /\ SaveEffect("perform_ndvi_analysis", run.req, run.others,
                        PipelineSaveArgs(run), fault)
    /\ pc' = "idle"
    /\ run' = NoRun
    /\ UNCHANGED pre_rows
    /\ UNCHANGED otherVars

\* db_handler.save_analysis_results called on its own.
SaveCall ==
    /\ pc = "idle"
    /\ clock < MaxClock
    /\ \E req \in Requests, a \in DirectSaves, fault \in SaveFaults :
          /\ fault = "connect" => conn = "none"
          /\ SaveEffect("save_analysis_results", req, None, a, fault)
    /\ pre_rows' = rows
    /\ UNCHANGED <<pc, run>>
    /\ UNCHANGED otherVars

\* A read operation of the handler: connect when there is no connection, then
\* run the statement. dbok says whether the database answers during this call;
\* pre, when raised, is an error found after connecting and before executing.
ReadEffect(op, arg, dbok, pre, stmt) ==
    LET c1 == EnsureConnected(conn)
        out == IF conn = "none" /\ ~dbok
               THEN [raised |-> TRUE, err |-> "connect", val |-> None, conn |-> "none"]
               ELSE IF pre.raised
               THEN [raised |-> TRUE, err |-> pre.err, val |-> None, conn |-> c1]
               ELSE IF c1 = "closed"
               THEN [raised |-> TRUE, err |-> "closed", val |-> None, conn |-> "closed"]
               ELSE IF ~dbok
               THEN [raised |-> TRUE, err |-> "lost", val |-> None, conn |-> "closed"]
               ELSE [raised |-> stmt.raised, err |-> stmt.err, val |-> stmt.val, conn |-> c1]
    IN  /\ conn' = out.conn
        /\ ret' = [op |-> op, raised |-> out.raised, err |-> out.err, val |-> out.val,
                   arg |-> [arg EXCEPT !.conn0 = conn]]
        /\ pre_rows' = rows
        /\ UNCHANGED <<rows, clock, pc, run, lastSaved, issued>>

NoPre == [raised |-> FALSE, err |-> ""]

GetAnalysisResults ==
    /\ pc = "idle"
    /\ \E id \in AskedIds, dbok \in BOOLEAN :
          ReadEffect("get_analysis_results", [NoArg EXCEPT !.id = id], dbok, NoPre,
                     get_analysis_results(rows, id))
    /\ UNCHANGED otherVars

GetImageData ==
    /\ pc = "idle"
    /\ \E id \in AskedIds, k \in ImageTypes, dbok \in BOOLEAN :
          ReadEffect("get_image_data", [NoArg EXCEPT !.id = id, !.kind = k], dbok,
                     IF k \in Kinds THEN NoPre ELSE [raised |-> TRUE, err |-> "value_error"],
                     get_image_data(rows, id, k))
    /\ UNCHANGED otherVars

ListAnalyses ==
    /\ pc = "idle"
    /\ \E limit \in 1..MaxLimit, dbok \in BOOLEAN :
          ReadEffect("list_analyses", [NoArg EXCEPT !.limit = limit], dbok, NoPre,
                     list_analyses(rows, limit))
    /\ UNCHANGED otherVars

\* connect(): a new connection replaces the old one, or the call raises.
Connect ==
    /\ pc = "idle"
    /\ \E dbok \in BOOLEAN :
          /\ conn' = IF dbok THEN "open" ELSE conn
          /\ ret' = [NoRet EXCEPT !.op = "connect", !.raised = ~dbok,
                                  !.err = IF dbok THEN "" ELSE "connect"]
    /\ pre_rows' = rows
    /\ UNCHANGED <<rows, clock, pc, run, lastSaved, issued>>
    /\ UNCHANGED otherVars

\* disconnect(): cursor and connection are closed; self.connection keeps the
\* closed object.
Disconnect ==
    /\ pc = "idle"
    /\ conn' = IF conn = "none" THEN "none" ELSE "closed"
    /\ ret' = [NoRet EXCEPT !.op = "disconnect"]
    /\ pre_rows' = rows
    /\ UNCHANGED <<rows, clock, pc, run, lastSaved, issued>>
    /\ UNCHANGED otherVars

\* The handler's operations, called in any order.
NextStore ==
    \/ SaveCall
    \/ GetAnalysisResults \/ GetImageData \/ ListAnalyses
    \/ Connect \/ Disconnect

\* Analyses run one after another; the connection may be closed or replaced
\* between them.
NextPipeline ==
    \/ StartAnalysis \/ FindPair \/ SignUrls \/ FetchBand \/ ComputeIndex
    \/ Encode \/ SaveResults
    \/ Connect \/ Disconnect

-----------------------------------------------------------------------------
\* The variables of the machines a specification does not run.
IdIdle == id_pc = "off" /\ id_a = NoReq /\ id_b = NoReq /\ id_out = <<>>
FetchIdle ==
    /\ f_pc = "off" /\ f_max_retries = 0 /\ f_fail = 0 /\ f_attempt = 0
    /\ f_calls = 0 /\ f_sleeps = <<>> /\ f_errs = <<>> /\ f_result = [tag |-> "off"]
SelIdle ==
    /\ s_pc = "off" /\ s_catalog = <<>> /\ s_args = None
    /\ s_search_calls = 0 /\ s_out = None

NdviIdle == n_pc = "off" /\ n_bands = <<>> /\ n_out = <<>>
BandIdle == b_pc = "off" /\ b_src = <<>> /\ b_max_size = 0 /\ b_out = <<>>
EncIdle ==
    /\ e_pc = "off" /\ e_mode = "" /\ e_raster = <<>> /\ e_normalized = <<>>
    /\ e_tried = <<>> /\ e_colored = None /\ e_out = <<>>
RasterIdle == NdviIdle /\ BandIdle /\ EncIdle
GradIdle == g_pc = "off" /\ g_mode = "" /\ g_val = 0 /\ g_out = <<>>
WriterIdle ==
    /\ w_pc = <<>> /\ w_args = <<>> /\ w_fault = <<>> /\ w_rows = {}
    /\ w_conn = None /\ w_clock = 0 /\ w_out = <<>> /\ w_hist = None

InitStore == StoreInit /\ IdIdle /\ FetchIdle /\ SelIdle /\ RasterIdle /\ WriterIdle /\ GradIdle
SpecStore == InitStore /\ [][NextStore]_vars
SpecPipeline == InitStore /\ [][NextPipeline]_vars

-----------------------------------------------------------------------------
(* Properties of the store and the pipeline.                               *)

\* C1: a run of perform_ndvi_analysis that raises, at whatever stage (selection,
\* signing, a fetch, the index computation, an encode, or the save), leaves
\* the table exactly as it was when the run started.
C1_FailedRunWritesNothing ==
    (ret.op = "perform_ndvi_analysis" /\ ret.raised) => rows = pre_rows

\* A run failed at the commit of its save while a record of the same identity
\* was already stored.
C1_Witness ==
    /\ ret.op = "perform_ndvi_analysis"
    /\ ret.raised
    /\ ret.err = "commit"
    /\ Matching(rows, IdOf(ret.arg.req)) # {}

\* The image argument a save passed for a kind.
ImageArg(a, kind) ==
    CASE kind = "early" -> a.early_ndvi_image
      [] kind = "late" -> a.late_ndvi_image
      [] kind = "difference" -> a.difference_image

\* C2: after any sequence of successful saves the table holds exactly one
\* record per identity saved, whose three images, two metadata blobs and
\* results are those of the last save of that identity, and whose updated_at
\* is the timestamp of that save.
C2_OneRecordPerIdentity ==
    /\ \A r \in rows : r.analysis_id \in DOMAIN lastSaved
    /\ \A id \in DOMAIN lastSaved :
          /\ Cardinality(Matching(rows, id)) = 1
          /\ \A r \in Matching(rows, id) :
                /\ \A k \in Kinds : ColumnOf(r, k) = ImageArg(lastSaved[id].args, k)
                /\ json_loads(r.early_ndvi_metadata) = lastSaved[id].args.early_image_data
                /\ json_loads(r.late_ndvi_metadata) = lastSaved[id].args.late_image_data
                /\ json_loads(r.analysis_results) = lastSaved[id].args.analysis_results
                /\ r.updated_at = lastSaved[id].at

\* Two identities are stored, and one of them was saved a second time with
\* other images than the record held.
C2_Witness ==
    /\ Cardinality(rows) = 2
    /\ \E id \in DOMAIN lastSaved : lastSaved[id].count >= 2 /\ lastSaved[id].changed

\* C3: the id a successful run returns is the id first returned for the same
\* (bbox, start_date, end_date, selection_mode), whatever the time, the
\* contents of the table, the connection and the other parameters of the run.
C3_IdentityOfRequestOnly ==
    (ret.op = "perform_ndvi_analysis" /\ ~ret.raised) =>
        /\ ret.arg.req \in DOMAIN issued
        /\ ret.val = Some(issued[ret.arg.req].id)

\* A run returns the id of a request first saved at another time, with other
\* parameters, another connection state and another table.
C3_Witness ==
    /\ ret.op = "perform_ndvi_analysis"
    /\ ~ret.raised
    /\ ret.arg.req \in DOMAIN issued
    /\ issued[ret.arg.req].at < clock
    /\ issued[ret.arg.req].others # ret.arg.others
    /\ issued[ret.arg.req].conn0 # ret.arg.conn0
    /\ issued[ret.arg.req].stored # Cardinality(pre_rows)

\* C5: list_analyses(limit) returns at most limit summaries, a later update
\* before an earlier one, and omits no record updated more recently than one
\* it returns.
C5_ListNewestUpdateFirst ==
    (ret.op = "list_analyses" /\ ~ret.raised) =>
        LET out == ret.val.val
            listed == {out[i].analysis_id : i \in 1..Len(out)}
        IN  /\ Len(out) <= ret.arg.limit
            /\ \A i, j \in 1..Len(out) : i < j => out[i].updated_at >= out[j].updated_at
            /\ \A r \in rows : r.analysis_id \notin listed =>
                  \A i \in 1..Len(out) : r.updated_at <= out[i].updated_at

\* The errors of a connection that is not working.
ConnectionErrors == {"connect", "closed", "lost"}

\* C6: on a working connection get_analysis_results(id) and
\* get_image_data(id, kind), kind one of early, late, difference, return None
\* without raising when no record has that id, and leave the table unchanged.
C6_AbsentIsNone ==
    ( /\ ret.op \in {"get_analysis_results", "get_image_data"}
      /\ ret.err \notin ConnectionErrors
      /\ ret.op = "get_image_data" => ret.arg.kind \in Kinds
      /\ Matching(pre_rows, ret.arg.id) = {} )
    => (~ret.raised /\ ret.val = None /\ rows = pre_rows)

\* A get of an id that is not stored, from a table that holds other records.
C6_Witness ==
    /\ ret.op = "get_analysis_results"
    /\ ret.err \notin ConnectionErrors
    /\ rows # {}
    /\ Matching(rows, ret.arg.id) = {}
    /\ ret.val = None

\* C7: after a successful save under an id, get_image_data(id, kind) returns
\* exactly the bytes that save passed for kind, for every byte string.
C7_ImageRoundTrip ==
    ( /\ ret.op = "get_image_data"
      /\ ~ret.raised
      /\ ret.arg.id \in DOMAIN lastSaved )
    => ret.val = Some(ImageArg(lastSaved[ret.arg.id].args, ret.arg.kind))

\* The four reads of a run in the order required: red (B04) and near-infrared
\* (B08) of the early scene, then red and near-infrared of the late scene.
FetchOrder(r) ==
    << r.early.id * 10 + 4, r.early.id * 10 + 8, r.late.id * 10 + 4, r.late.id * 10 + 8 >>

\* A step of a run that raised: the run is over and nothing was written.
RunAborted(stage) ==
    /\ pc' = "idle"
    /\ run' = NoRun
    /\ ret'.raised /\ ret'.err = stage
    /\ rows' = rows /\ clock' = clock

\* C22: within one run of perform_ndvi_analysis the steps come in the order
\* selection, signing, read of early red, early near-infrared, late red, late
\* near-infrared, index computation, three encodes, one save; a read starts
\* only when the one before has returned, and when a read raises after its
\* retries no later read, computation, encode or save is started.
C22_StepsInOrder ==
    [][ /\ (pc = "idle" /\ pc' # "idle") =>
              pc' = "find_pair" /\ run'.bands = <<>> /\ run'.ndvi = <<>> /\ run'.images = <<>>
        /\ pc = "find_pair" =>
              \/ RunAborted("selection")
              \/ pc' = "sign" /\ run'.bands = <<>> /\ run'.images = <<>> /\ rows' = rows
        /\ pc = "sign" =>
              \/ RunAborted("signing")
              \/ pc' = "fetch" /\ run' = run /\ rows' = rows
        /\ pc = "fetch" =>
              \/ RunAborted("fetch")
              \/ /\ Len(run.bands) < 4
                 /\ run'.bands = Append(run.bands, FetchOrder(run)[Len(run.bands) + 1])
                 /\ run'.ndvi = <<>> /\ run'.images = <<>> /\ rows' = rows
                 /\ pc' = IF Len(run'.bands) = 4 THEN "compute" ELSE "fetch"
        /\ pc = "compute" =>
              \/ RunAborted("compute")
              \/ /\ run.bands = FetchOrder(run) /\ run'.bands = run.bands
                 /\ Len(run'.ndvi) = 3 /\ run'.images = <<>> /\ rows' = rows
                 /\ pc' = "encode"
        /\ pc = "encode" =>
              \/ RunAborted("encode")
              \/ /\ Len(run.images) < 3
                 /\ Len(run'.images) = Len(run.images) + 1
                 /\ run'.bands = run.bands /\ run'.ndvi = run.ndvi /\ rows' = rows
                 /\ pc' = IF Len(run'.images) = 3 THEN "save" ELSE "encode"
        /\ pc = "save" =>
              /\ Len(run.images) = 3 /\ run.bands = FetchOrder(run)
              /\ pc' = "idle"
              /\ clock' \in {clock, clock + 1}
    ]_vars

\* A run has passed selection, signing, the four reads, the computation and
\* the three encodes, and is about to save.
C22_Witness ==
    /\ pc = "save"
    /\ run.bands = FetchOrder(run)
    /\ Len(run.ndvi) = 3
    /\ Len(run.images) = 3


\* C23: after any sequence of successful saves under one identity, overwrites
\* with other scenes included, the early_image_date and late_image_date
\* columns of the record equal the capture dates recorded in its stored early
\* and late scene metadata.
C23_DateColumnsMatchMetadata ==
    \A r \in rows :
        /\ r.early_image_date = DateOf(json_loads(r.early_ndvi_metadata))
        /\ r.late_image_date = DateOf(json_loads(r.late_ndvi_metadata))

StoreOps == {"save_analysis_results", "get_analysis_results", "get_image_data", "list_analyses"}

\* C29: in any sequence of connect, disconnect and store operations, no store
\* operation runs its statement on a closed connection or cursor: an operation
\* that finds the connection closed after disconnect() first establishes a new
\* one.
C29_NoUseAfterDisconnect ==
    ret.op \in StoreOps =>
        /\ ret.err # "closed"
        /\ (ret.arg.conn0 = "closed" /\ ~ret.raised) => conn = "open"

\* The operations that only read.
ReadOps == {"get_analysis_results", "get_image_data", "list_analyses"}

\* C30: a save that overwrites a record leaves the record's analysis_id, bbox,
\* start_date, end_date, selection_mode and created_at as they were and every
\* record of another identity wholly as it was; get_analysis_results,
\* get_image_data and list_analyses change no record.
C30_OverwriteFrame ==
    /\ (ret.op = "save_analysis_results" /\ ~ret.raised) =>
          LET id == ret.val.val
          IN  /\ {r \in rows : r.analysis_id # id} = {r \in pre_rows : r.analysis_id # id}
              /\ \A old \in Matching(pre_rows, id) :
                    /\ Cardinality(Matching(rows, id)) = 1
                    /\ \A r \in Matching(rows, id) :
                          /\ r.analysis_id = old.analysis_id
                          /\ r.bbox = old.bbox
                          /\ r.start_date = old.start_date
                          /\ r.end_date = old.end_date
                          /\ r.selection_mode = old.selection_mode
                          /\ r.created_at = old.created_at
    /\ ret.op \in ReadOps => rows = pre_rows

\* A save has overwritten a record, at a later time than the record was
\* created and with other images, while a record of another identity is
\* stored.
C30_Witness ==
    /\ ret.op = "save_analysis_results"
    /\ ~ret.raised
    /\ Matching(pre_rows, ret.val.val) # {}
    /\ rows # pre_rows
    /\ Cardinality(rows) = 2
    /\ \A r \in Matching(rows, ret.val.val) : r.updated_at > r.created_at

-----------------------------------------------------------------------------
(* generate_analysis_id on arbitrary string arguments.                     *)

\* The arguments drawn: two bounding boxes, and date and mode strings some of
\* which hold the separator "_" themselves.
IdBboxes == { <<77, 28, 78, 29>>, <<77, 28, 78, 30>> }
IdStartDates == { "2022-01-01", "2022-01-01_2023-01-01" }
IdEndDates == { "2023-01-01", "2024-01-01", "2023-01-01_2024-01-01" }
IdModes == { "smart", "exact" }
IdInputs ==
    [bbox : IdBboxes, start_date : IdStartDates, end_date : IdEndDates,
     selection_mode : IdModes]

IdInit ==
    /\ id_pc = "call"
    /\ id_a \in IdInputs
    /\ id_b \in IdInputs
    /\ id_out = <<>>

\* generate_analysis_id is called on each of the two tuples.
GenerateIds ==
    /\ id_pc = "call"
    /\ id_out' = <<IdOf(id_a), IdOf(id_b)>>
    /\ id_pc' = "done"
    /\ UNCHANGED <<id_a, id_b, storeVars, fetchVars, selVars, rasterVars, writerVars, gradVars>>

StoreIdle ==
    /\ rows = {} /\ conn = "none" /\ clock = 0 /\ pc = "off" /\ run = NoRun
    /\ ret = NoRet /\ pre_rows = {} /\ lastSaved = << >> /\ issued = << >>

InitId == IdInit /\ StoreIdle /\ FetchIdle /\ SelIdle /\ RasterIdle /\ WriterIdle /\ GradIdle
NextId == GenerateIds
SpecId == InitId /\ [][NextId]_vars

\* C4: two request tuples that differ in at least one field get different
\* canonical strings, hence different identifiers.
C4_DistinctTuplesDistinctIds ==
    (id_pc = "done" /\ id_a # id_b) => id_out[1] # id_out[2]

-----------------------------------------------------------------------------
(* Two threads calling save_analysis_results on the one db_handler.        *)
(* The handler holds one connection and one cursor for the process and     *)
(* takes no lock: each thread runs the lines of save_analysis_results in   *)
(* order, and the lines of the two threads interleave. Each call of the    *)
(* driver (connect, execute, commit, fetchone, rollback) is atomic: the    *)
(* driver serialises the calls made on one connection.                     *)

Threads == {1, 2}

\* Both calls carry the same (bbox, start_date, end_date, selection_mode).
WriterRequest == CHOOSE r \in Requests : r.selection_mode = "smart"
WriterId == IdOf(WriterRequest)

\* What can go wrong inside one call, besides a datetime that does not parse.
WriterFaults == {"none", "commit"}

\* db_handler.connection and db_handler.cursor. txn is the table as the
\* connection's open transaction sees it, dirty the threads whose statements
\* are in that transaction, cursor what fetchone() would find.
NoConnection == [open |-> FALSE, txn |-> {}, dirty |-> {}, cursor |-> "none"]

WriterInit ==
    /\ w_pc = [t \in Threads |-> "check"]
    /\ w_args \in [Threads -> DirectSaves]
    /\ w_fault \in [Threads -> WriterFaults]
    /\ w_rows = {}
    /\ w_conn = NoConnection
    /\ w_clock = 0
    /\ w_out = [t \in Threads |-> None]
    /\ w_hist = [last_exec |-> 0, crossed |-> {}]

\* What the threads' steps leave alone.
notWriterVars == <<storeVars, idVars, fetchVars, selVars, rasterVars, gradVars>>

\* The writes of other threads that thread t's call of kind drops or commits.
Crossing(t, kind) ==
    { [by |-> t, kind |-> kind, of |-> u] : u \in w_conn.dirty \ {t} }

\* `if not self.connection:`
CheckConnection(t) ==
    /\ w_pc[t] = "check"
    /\ w_pc' = [w_pc EXCEPT ![t] = IF w_conn.open THEN "execute" ELSE "connect"]
    /\ UNCHANGED <<w_args, w_fault, w_rows, w_conn, w_clock, w_out, w_hist>>
    /\ UNCHANGED notWriterVars

\* `self.connect()`: connection and cursor are replaced. The connection that
\* was there loses its last reference and is closed, its transaction undone.
ConnectThread(t) ==
    /\ w_pc[t] = "connect"
    /\ w_conn' = [open |-> TRUE, txn |-> w_rows, dirty |-> {}, cursor |-> "fresh"]
    /\ w_hist' = [w_hist EXCEPT !.crossed = @ \cup Crossing(t, "connect")]
    /\ w_pc' = [w_pc EXCEPT ![t] = "execute"]
    /\ UNCHANGED <<w_args, w_fault, w_rows, w_clock, w_out>>
    /\ UNCHANGED notWriterVars

\* generate_analysis_id, the two fromisoformat calls and cursor.execute: the
\* statement joins the connection's open transaction.
ExecuteInsert(t) ==
    /\ w_pc[t] = "execute"
    /\ LET a == w_args[t]
       IN  IF ~(ParsesAsDate(a.early_image_data) /\ ParsesAsDate(a.late_image_data))
           THEN /\ w_pc' = [w_pc EXCEPT ![t] = "except"]
                /\ UNCHANGED <<w_conn, w_clock, w_hist>>
           ELSE /\ w_conn' = [w_conn EXCEPT
                                !.txn = Upsert(@, NewRow(WriterId, WriterRequest, a, w_clock + 1)),
                                !.dirty = @ \cup {t},
                                !.cursor = "result"]
                /\ w_clock' = w_clock + 1
                /\ w_hist' = [w_hist EXCEPT !.last_exec = t]
                /\ w_pc' = [w_pc EXCEPT ![t] = "commit"]
    /\ UNCHANGED <<w_args, w_fault, w_rows, w_out>>
    /\ UNCHANGED notWriterVars

\* `self.connection.commit()`: the whole transaction of the connection is
\* committed, or the call raises.
CommitThread(t) ==
    /\ w_pc[t] = "commit"
    /\ IF w_fault[t] = "commit"
       THEN /\ w_pc' = [w_pc EXCEPT ![t] = "except"]
            /\ UNCHANGED <<w_rows, w_conn, w_hist>>
       ELSE /\ w_rows' = Commit(w_rows, w_conn.txn)
            /\ w_conn' = [w_conn EXCEPT !.dirty = {}]
            /\ w_hist' = [w_hist EXCEPT !.crossed = @ \cup Crossing(t, "commit")]
            /\ w_pc' = [w_pc EXCEPT ![t] = "fetch"]
    /\ UNCHANGED <<w_args, w_fault, w_clock, w_out>>
    /\ UNCHANGED notWriterVars

\* `result = self.cursor.fetchone()` and the return: a cursor that has run no
\* statement raises; one whose row was already fetched gives None and the
\* generated id is returned instead.
FetchOne(t) ==
    /\ w_pc[t] = "fetch"
    /\ IF w_conn.cursor = "fresh"
       THEN /\ w_pc' = [w_pc EXCEPT ![t] = "except"]
            /\ UNCHANGED <<w_conn, w_out>>
       ELSE /\ w_conn' = [w_conn EXCEPT !.cursor = "drained"]
            /\ w_out' = [w_out EXCEPT ![t] = Some([raised |-> FALSE, val |-> WriterId])]
            /\ w_pc' = [w_pc EXCEPT ![t] = "done"]
    /\ UNCHANGED <<w_args, w_fault, w_rows, w_clock, w_hist>>
    /\ UNCHANGED notWriterVars

\* The except branch: `self.connection.rollback()` and `raise`.
ExceptRollback(t) ==
    /\ w_pc[t] = "except"
    /\ w_conn' = [w_conn EXCEPT !.txn = Rollback(w_rows, @), !.dirty = {}]
    /\ w_hist' = [w_hist EXCEPT !.crossed = @ \cup Crossing(t, "rollback")]
    /\ w_out' = [w_out EXCEPT ![t] = Some([raised |-> TRUE, val |-> NoId])]
    /\ w_pc' = [w_pc EXCEPT ![t] = "done"]
    /\ UNCHANGED <<w_args, w_fault, w_rows, w_clock>>
    /\ UNCHANGED notWriterVars

InitWriters == WriterInit /\ StoreIdle /\ IdIdle /\ FetchIdle /\ SelIdle /\ RasterIdle /\ GradIdle
NextWriters ==
    \E t \in Threads :
        \/ CheckConnection(t) \/ ConnectThread(t) \/ ExecuteInsert(t)
        \/ CommitThread(t) \/ FetchOne(t) \/ ExceptRollback(t)
SpecWriters == InitWriters /\ [][NextWriters]_vars

WritersDone == \A t \in Threads : w_pc[t] = "done"
ReturnedNormally(t) == w_pc[t] = "done" /\ ~w_out[t].val.raised

\* C21: when two concurrent save_analysis_results calls of the same identity
\* have both ended and at least one returned normally, the table holds exactly
\* one record of that identity, whose images, metadata and results are all
\* those of the call that executed its statement last, and neither call's
\* commit, rollback or connect has discarded or published the other's write.
C21_ConcurrentSavesLastWriterWins ==
    (WritersDone /\ \E t \in Threads : ReturnedNormally(t)) =>
        /\ Cardinality(Matching(w_rows, WriterId)) = 1
        /\ \A r \in Matching(w_rows, WriterId) :
              LET a == w_args[w_hist.last_exec]
              IN  /\ \A k \in Kinds : ColumnOf(r, k) = ImageArg(a, k)
                  /\ json_loads(r.early_ndvi_metadata) = a.early_image_data
                  /\ json_loads(r.late_ndvi_metadata) = a.late_image_data
                  /\ json_loads(r.analysis_results) = a.analysis_results
        /\ w_hist.crossed = {}

-----------------------------------------------------------------------------
(* read_band_with_retry                                                    *)

\* The largest max_retries and the largest number of leading failed reads drawn.
MaxRetries == 4
MaxFailures == 4

\* The exceptions read_band re-raises: a raster I/O error, or the timeout of
\* GDAL_HTTP_TIMEOUT, which arrives as one.
ReadErrors == {"RasterioIOError", "timeout"}

\* What the n-th call of read_band returns when it succeeds: (array, transform).
ReadValue(n) == [array |-> n, transform |-> n]

FetchInit ==
    /\ f_pc = "loop"
    /\ f_max_retries \in 0..MaxRetries
    /\ f_fail \in 0..MaxFailures
    /\ f_attempt = 0
    /\ f_calls = 0
    /\ f_sleeps = <<>>
    /\ f_errs = <<>>
    /\ f_result = [tag |-> "running"]

\* A plausible bug: linear instead of exponential backoff.
wait_time_linear(attempt) == 2 * attempt

\* wait_time = 2 ** attempt
wait_time(attempt) == 2 ^ attempt

\* `if attempt < max_retries - 1`
retry_guard(attempt, max_retries) == attempt < max_retries - 1

\* An iteration of `for attempt in range(max_retries)` whose read_band returns.
ReadBandReturns ==
    /\ f_pc = "loop"
    /\ f_attempt < f_max_retries
    /\ f_calls + 1 > f_fail
    /\ f_calls' = f_calls + 1
    /\ f_result' = [tag |-> "return", value |-> ReadValue(f_calls + 1)]
    /\ f_pc' = "returned"
    /\ UNCHANGED <<f_max_retries, f_fail, f_attempt, f_sleeps, f_errs>>
    /\ UNCHANGED <<storeVars, idVars, selVars, rasterVars, writerVars, gradVars>>

\* An iteration whose read_band raises e: the except branch either goes on to
\* sleep or re-raises e.
ReadBandRaises ==
    /\ f_pc = "loop"
    /\ f_attempt < f_max_retries
    /\ f_calls + 1 <= f_fail
    /\ \E t \in ReadErrors :
          LET e == [type |-> t, call |-> f_calls + 1]
          IN  /\ f_errs' = Append(f_errs, e)
              /\ IF retry_guard(f_attempt, f_max_retries)
                 THEN f_pc' = "sleeping" /\ f_result' = f_result
                 ELSE f_pc' = "raised" /\ f_result' = [tag |-> "raise", error |-> e]
    /\ f_calls' = f_calls + 1
    /\ UNCHANGED <<f_max_retries, f_fail, f_attempt, f_sleeps>>
    /\ UNCHANGED <<storeVars, idVars, selVars, rasterVars, writerVars, gradVars>>

\* time.sleep(wait_time), then the next iteration.
Sleep ==
    /\ f_pc = "sleeping"
    /\ f_sleeps' = Append(f_sleeps, wait_time(f_attempt))
    /\ f_attempt' = f_attempt + 1
    /\ f_pc' = "loop"
    /\ UNCHANGED <<f_max_retries, f_fail, f_calls, f_errs, f_result>>
    /\ UNCHANGED <<storeVars, idVars, selVars, rasterVars, writerVars, gradVars>>

\* range(max_retries) is exhausted: the function ends without a return
\* statement, that is, it returns None.
LoopEnds ==
    /\ f_pc = "loop"
    /\ f_attempt >= f_max_retries
    /\ f_result' = [tag |-> "return_none"]
    /\ f_pc' = "returned"
    /\ UNCHANGED <<f_max_retries, f_fail, f_attempt, f_calls, f_sleeps, f_errs>>
    /\ UNCHANGED <<storeVars, idVars, selVars, rasterVars, writerVars, gradVars>>

InitFetch == FetchInit /\ StoreIdle /\ IdIdle /\ SelIdle /\ RasterIdle /\ WriterIdle /\ GradIdle
NextFetch == ReadBandReturns \/ ReadBandRaises \/ Sleep \/ LoopEnds
SpecFetch == InitFetch /\ [][NextFetch]_vars

FetchDone == f_pc \in {"returned", "raised"}

\* C8: when read_band fails on the first k calls and succeeds on call k+1, with
\* k < max_retries, read_band_with_retry returns that call's result after
\* exactly k+1 calls, having slept 2^0, 2^1, ..., 2^(k-1) in that order.
C8_ReturnsAfterKFailures ==
    (FetchDone /\ f_fail < f_max_retries) =>
        /\ f_result = [tag |-> "return", value |-> ReadValue(f_fail + 1)]
        /\ f_calls = f_fail + 1
        /\ f_sleeps = [i \in 1..f_fail |-> 2 ^ (i - 1)]

\* A call that returned after two failed reads, having slept 1 and then 2.
C8_Witness ==
    /\ f_pc = "returned"
    /\ f_fail = 2
    /\ f_max_retries = 3
    /\ f_calls = 3
    /\ f_sleeps = <<1, 2>>

\* C9: when every read fails, read_band_with_retry makes exactly max_retries
\* calls and then raises a FetchExhaustedError carrying the attempt count
\* max_retries and the error of the last attempt.
C9_ExhaustedRaisesTagged ==
    (FetchDone /\ f_fail >= f_max_retries) =>
        /\ f_calls = f_max_retries
        /\ f_pc = "raised"
        /\ f_result = [tag |-> "raise",
                       error |-> [type |-> "FetchExhaustedError",
                                  attempts |-> f_max_retries,
                                  cause |-> f_errs[Len(f_errs)]]]

\* C25: for every max_retries >= 0, read_band_with_retry either raises or
\* returns the (array, transform) of a read_band call that succeeded; it never
\* returns without a value, nor without having called read_band at least once.
C25_ReturnsValueOrRaises ==
    f_pc = "returned" =>
        /\ f_calls >= 1
        /\ f_result = [tag |-> "return", value |-> ReadValue(f_calls)]

-----------------------------------------------------------------------------
(* search_items and find_best_image_pair                                   *)

\* The largest number of scenes the catalog returns.
MaxScenes == 3

Date(y, m, d) == [y |-> y, m |-> m, d |-> d]

\* date.toordinal(), up to a constant: the days of the proleptic Gregorian
\* calendar, so that differences are timedelta.days.
DayNumber(dt) ==
    LET y == IF dt.m <= 2 THEN dt.y - 1 ELSE dt.y
        era == y \div 400
        yoe == y - era * 400
        mp == IF dt.m > 2 THEN dt.m - 3 ELSE dt.m + 9
        doy == (153 * mp + 2) \div 5 + dt.d - 1
        doe == yoe * 365 + yoe \div 4 - yoe \div 100 + doy
    IN  era * 146097 + doe

Abs(n) == IF n < 0 THEN -n ELSE n

\* A STAC item: id, capture date and properties['eo:cloud_cover'], None when
\* the item has no such property.
Item(i, dt, c) == [id |-> i, datetime |-> dt, cloud |-> c]
NoItem == Item(0, Date(0, 1, 1), None)
ItemPool ==
    { Item(1, Date(2022, 6, 5), Some(5)),
      Item(2, Date(2022, 12, 31), Some(12)),
      Item(3, Date(2023, 1, 10), Some(2)),
      Item(4, Date(2023, 6, 20), Some(18)),
      Item(5, Date(2023, 7, 1), None),
      Item(6, Date(2023, 2, 9), Some(7)),
      Item(7, Date(2024, 1, 15), Some(9)) }

\* The catalog's answers: the search fails, or returns up to MaxScenes items.
CatalogAnswers ==
    { [ok |-> FALSE, items |-> <<>>] } \cup
    { [ok |-> TRUE, items |-> q] :
        q \in { f \in UNION { [1..k -> ItemPool] : k \in 0..MaxScenes } :
                  \A i, j \in DOMAIN f : i # j => f[i] # f[j] } }

\* The (start_date, end_date) pairs requested: short and long spans, spans of
\* exactly 300 and 301 days, an end before the start, and starts in December
\* and January.
DatePairs ==
    { <<Date(2022, 6, 1), Date(2022, 9, 1)>>,
      <<Date(2022, 6, 1), Date(2023, 6, 30)>>,
      <<Date(2022, 6, 1), Date(2023, 3, 28)>>,
      <<Date(2022, 6, 1), Date(2023, 3, 29)>>,
      <<Date(2023, 1, 5), Date(2023, 6, 30)>>,
      <<Date(2023, 2, 4), Date(2023, 1, 5)>>,
      <<Date(2023, 1, 5), Date(2023, 1, 20)>>,
      <<Date(2023, 1, 5), Date(2023, 2, 4)>>,
      <<Date(2022, 12, 1), Date(2024, 1, 20)>>,
      <<Date(2023, 1, 5), Date(2024, 1, 20)>> }

SelectArgs ==
    { [start_date |-> p[1], end_date |-> p[2], max_cloud_cover |-> c,
       selection_mode |-> m, max_date_deviation_days |-> t] :
        p \in DatePairs, c \in {10, 20}, m \in {"smart", "exact", "quality"},
        t \in {5, 20} }

\* sorted(...) and list.sort(...): a stable sort of records [k, v] by k.
RECURSIVE InsertStable(_, _)
InsertStable(sorted, x) ==
    IF sorted = <<>> THEN <<x>>
    ELSE IF x.k < Head(sorted).k THEN <<x>> \o sorted
    ELSE <<Head(sorted)>> \o InsertStable(Tail(sorted), x)

RECURSIVE StableSort(_)
StableSort(q) ==
    IF q = <<>> THEN <<>>
    ELSE InsertStable(StableSort(SubSeq(q, 1, Len(q) - 1)), q[Len(q)])

Values(q) == [i \in DOMAIN q |-> q[i].v]

\* search_items: the catalog's items sorted by properties["eo:cloud_cover"];
\* the subscript raises KeyError for an item without the property.
search_items(answer) ==
    IF ~answer.ok
    THEN [raised |-> TRUE, err |-> "search_failed", items |-> <<>>]
    ELSE IF \E i \in DOMAIN answer.items : answer.items[i].cloud.isNone
    THEN [raised |-> TRUE, err |-> "KeyError", items |-> <<>>]
    ELSE [raised |-> FALSE, err |-> "",
          items |-> Values(StableSort([i \in DOMAIN answer.items |->
                       [k |-> answer.items[i].cloud.val, v |-> answer.items[i]]]))]

\* item.properties.get('eo:cloud_cover', 100)
CloudOr100(item) == IF item.cloud.isNone THEN 100 ELSE item.cloud.val

\* The condition of the cloud-cover filter.
IsGood(item, max_cloud_cover) == CloudOr100(item) <= max_cloud_cover

\* [item for item in all_items if ...]
RECURSIVE Filter(_, _)
Filter(q, max_cloud_cover) ==
    IF q = <<>> THEN <<>>
    ELSE IF IsGood(Head(q), max_cloud_cover)
    THEN <<Head(q)>> \o Filter(Tail(q), max_cloud_cover)
    ELSE Filter(Tail(q), max_cloud_cover)

\* good_items.sort(key=lambda x: x.datetime)
SortByDate(q) ==
    Values(StableSort([i \in DOMAIN q |-> [k |-> DayNumber(q[i].datetime), v |-> q[i]]]))

\* abs((x.datetime.date() - dt.date()).days)
DayDistance(item, dt) == Abs(DayNumber(item.datetime) - DayNumber(dt))

\* A plausible bug: the first scene in time is taken, not the closest one.
ClosestToFirst(q, dt) == q[1]

\* min(good_items, key=...): the first item of the least key.
ClosestTo(q, dt) ==
    q[CHOOSE i \in DOMAIN q :
        /\ \A j \in DOMAIN q : DayDistance(q[i], dt) <= DayDistance(q[j], dt)
        /\ \A j \in DOMAIN q : j < i => DayDistance(q[j], dt) > DayDistance(q[i], dt)]

\* [item for item in good_items if abs(item.datetime.month - target_month) <= 1]
RECURSIVE NearMonth(_, _)
NearMonth(q, target_month) ==
    IF q = <<>> THEN <<>>
    ELSE IF Abs(Head(q).datetime.m - target_month) <= 1
    THEN <<Head(q)>> \o NearMonth(Tail(q), target_month)
    ELSE NearMonth(Tail(q), target_month)

\* [... and item.datetime.year > start_dt.year]
RECURSIVE AfterYear(_, _)
AfterYear(q, year) ==
    IF q = <<>> THEN <<>>
    ELSE IF Head(q).datetime.y > year
    THEN <<Head(q)>> \o AfterYear(Tail(q), year)
    ELSE AfterYear(Tail(q), year)

\* A plausible bug: a deviation equal to the tolerance is rejected as well.
OutOfToleranceInclusive(early_deviation, late_deviation, max_date_deviation_days) ==
    \/ early_deviation >= max_date_deviation_days
    \/ late_deviation >= max_date_deviation_days

\* early_deviation > max_date_deviation_days or late_deviation > max_date_deviation_days
OutOfTolerance(early_deviation, late_deviation, max_date_deviation_days) ==
    \/ early_deviation > max_date_deviation_days
    \/ late_deviation > max_date_deviation_days

\* The span above which smart mode matches seasons.
LongSpanDays == 300

\* A plausible bug: a span of exactly 300 days is treated as long.
IsLongSpanInclusive(time_span_days) == time_span_days >= LongSpanDays

\* time_span_days > 300
IsLongSpan(time_span_days) == time_span_days > LongSpanDays

NoInfo == [mode |-> "", total_images |-> 0, good_quality_images |-> 0,
           reason |-> "", date_deviations |-> <<>>]
Raises(e, info) == [raised |-> TRUE, err |-> e, early |-> NoItem, late |-> NoItem,
                    info |-> info]
Returns(early, late, info) == [raised |-> FALSE, err |-> "", early |-> early,
                               late |-> late, info |-> info]

\* find_best_image_pair after search_items returned all_items.
find_best_image_pair(all_items, a) ==
    LET filtered == Filter(all_items, a.max_cloud_cover)
        good_items == SortByDate(filtered)
        info == [mode |-> a.selection_mode, total_images |-> Len(all_items),
                 good_quality_images |-> Len(good_items), reason |-> "",
                 date_deviations |-> <<>>]
        first == good_items[1]
        last == good_items[Len(good_items)]
    IN  IF Len(filtered) < 2 THEN Raises("Not enough good quality images found", NoInfo)
        ELSE IF a.selection_mode = "exact" THEN
            LET early_image == ClosestTo(good_items, a.start_date)
                late_image == ClosestTo(good_items, a.end_date)
                early_deviation == DayDistance(early_image, a.start_date)
                late_deviation == DayDistance(late_image, a.end_date)
            IN  IF OutOfTolerance(early_deviation, late_deviation, a.max_date_deviation_days)
                THEN Raises("No images found within days of requested dates",
                            [NoInfo EXCEPT !.date_deviations =
                                              <<early_deviation, late_deviation>>])
                ELSE Returns(early_image, late_image,
                             [info EXCEPT !.reason = "Closest images to requested dates",
                                          !.date_deviations =
                                              <<early_deviation, late_deviation>>])
        ELSE IF a.selection_mode = "quality" THEN
            Returns(first, last,
                    [info EXCEPT !.reason = "Best quality images selected (lowest cloud cover)",
                                 !.date_deviations = <<0, 0>>])
        ELSE
            LET time_span_days == DayNumber(a.end_date) - DayNumber(a.start_date)
                target_month == a.start_date.m
                early_candidates == NearMonth(good_items, target_month)
                late_candidates == AfterYear(early_candidates, a.start_date.y)
            IN  IF IsLongSpan(time_span_days) THEN
                    IF early_candidates # <<>> /\ late_candidates # <<>>
                    THEN Returns(early_candidates[1], late_candidates[Len(late_candidates)],
                                 [info EXCEPT !.reason = "Seasonal matching applied",
                                              !.date_deviations = <<0, 0>>])
                    ELSE Returns(first, last,
                                 [info EXCEPT !.reason = "Fallback to first and last good quality images",
                                              !.date_deviations = <<0, 0>>])
                ELSE Returns(first, last,
                             [info EXCEPT !.reason = "Short time period - using first and last good quality images",
                                          !.date_deviations = <<0, 0>>])

SelectInit ==
    /\ s_pc = "call"
    /\ s_catalog \in CatalogAnswers
    /\ s_args \in SelectArgs
    /\ s_search_calls = 0
    /\ s_out = Raises("", NoInfo)

\* find_best_image_pair is called: one search_items call, whose exception
\* propagates, then the selection.
FindBestImagePair ==
    /\ s_pc = "call"
    /\ s_search_calls' = s_search_calls + 1
    /\ LET found == search_items(s_catalog)
       IN  s_out' = IF found.raised THEN Raises(found.err, NoInfo)
                    ELSE find_best_image_pair(found.items, s_args)
    /\ s_pc' = "done"
    /\ UNCHANGED <<s_catalog, s_args, storeVars, idVars, fetchVars, rasterVars, writerVars, gradVars>>

InitSelect == SelectInit /\ StoreIdle /\ IdIdle /\ FetchIdle /\ RasterIdle /\ WriterIdle /\ GradIdle
NextSelect == FindBestImagePair
SpecSelect == InitSelect /\ [][NextSelect]_vars

\* The scenes of the catalog's answer that pass the filter, one without a
\* cloud-cover value counting as 100.
RECURSIVE CountGood(_, _)
CountGood(q, max_cloud_cover) ==
    IF q = <<>> THEN 0
    ELSE (IF CloudOr100(Head(q)) <= max_cloud_cover THEN 1 ELSE 0)
         + CountGood(Tail(q), max_cloud_cover)

InsufficientData == "Not enough good quality images found"

\* C10: when the catalog answers, find_best_image_pair fails with the
\* insufficient-data error if and only if fewer than two of the returned scenes
\* have cloud cover <= max_cloud_cover, a scene without a value counting as
\* 100; the search is called exactly once.
C10_InsufficientIffFewerThanTwo ==
    (s_pc = "done" /\ s_catalog.ok) =>
        /\ s_search_calls = 1
        /\ (s_out.raised /\ s_out.err = InsufficientData)
              <=> (CountGood(s_catalog.items, s_args.max_cloud_cover) < 2)

-----------------------------------------------------------------------------
(* Properties of the selection.                                            *)

\* The returned scenes that pass the cloud-cover filter.
GoodScenes ==
    { s_catalog.items[i] : i \in { j \in DOMAIN s_catalog.items :
                                     CloudOr100(s_catalog.items[j]) <= s_args.max_cloud_cover } }

Returned(mode) == s_pc = "done" /\ s_args.selection_mode = mode /\ ~s_out.raised

\* The spec's example: scenes at days 0, 10 and 40, start at day 5, end at day 35.
ExampleScenes ==
    { Item(2, Date(2022, 12, 31), Some(12)), Item(3, Date(2023, 1, 10), Some(2)),
      Item(6, Date(2023, 2, 9), Some(7)) }
IsExample ==
    /\ GoodScenes = ExampleScenes
    /\ s_args.start_date = Date(2023, 1, 5)
    /\ s_args.end_date = Date(2023, 2, 4)
    /\ s_args.max_date_deviation_days = 20

\* C11: in exact mode a call that returns gives as early a filtered scene of
\* least day-distance to start_date and as late a filtered scene of least
\* day-distance to end_date, each chosen on its own, and reports those two
\* distances; scenes at days 0, 10, 40 with start day 5, end day 35 and
\* tolerance 20 give the scenes of day 0 and day 40.
C11_ExactPicksClosest ==
    Returned("exact") =>
        /\ s_out.early \in GoodScenes
        /\ s_out.late \in GoodScenes
        /\ \A g \in GoodScenes :
              /\ DayDistance(s_out.early, s_args.start_date) <= DayDistance(g, s_args.start_date)
              /\ DayDistance(s_out.late, s_args.end_date) <= DayDistance(g, s_args.end_date)
        /\ s_out.info.date_deviations =
              << DayDistance(s_out.early, s_args.start_date),
                 DayDistance(s_out.late, s_args.end_date) >>
        /\ IsExample => (s_out.early.datetime = Date(2022, 12, 31)
                         /\ s_out.late.datetime = Date(2023, 2, 9))

\* The example was selected in exact mode.
C11_Witness == Returned("exact") /\ IsExample

\* The least day-distance of a filtered scene to a date.
MinDistance(dt) ==
    CHOOSE d \in { DayDistance(g, dt) : g \in GoodScenes } :
        \A g \in GoodScenes : d <= DayDistance(g, dt)

\* search_items returned: the catalog answered and every scene has a cloud cover.
SearchReturned ==
    s_pc = "done" /\ s_catalog.ok
    /\ \A i \in DOMAIN s_catalog.items : ~s_catalog.items[i].cloud.isNone

NoMatchWithinTolerance == "No images found within days of requested dates"
RaisedTolerance == s_out.raised /\ s_out.err = NoMatchWithinTolerance

\* C12: once search_items has returned at least two filtered scenes, exact
\* mode fails with the no-match-within-tolerance error, reporting both
\* achieved distances, if and only if the least day-distance to start_date or
\* the least day-distance to end_date is strictly greater than
\* max_date_deviation_days (a distance equal to it succeeds); no other mode
\* raises this error.
C12_ToleranceErrorIffExceeded ==
    SearchReturned =>
        /\ (s_args.selection_mode = "exact" /\ Cardinality(GoodScenes) >= 2) =>
              /\ RaisedTolerance <=>
                    \/ MinDistance(s_args.start_date) > s_args.max_date_deviation_days
                    \/ MinDistance(s_args.end_date) > s_args.max_date_deviation_days
              /\ RaisedTolerance =>
                    s_out.info.date_deviations =
                        <<MinDistance(s_args.start_date), MinDistance(s_args.end_date)>>
              /\ ~RaisedTolerance => ~s_out.raised
        /\ s_args.selection_mode # "exact" => ~RaisedTolerance

\* Exact mode failed because only the late distance exceeded the tolerance,
\* the early distance being equal to it.
C12_Witness ==
    /\ SearchReturned
    /\ s_args.selection_mode = "exact"
    /\ RaisedTolerance
    /\ MinDistance(s_args.start_date) = s_args.max_date_deviation_days
    /\ MinDistance(s_args.end_date) > s_args.max_date_deviation_days

\* C13: in quality mode early is a filtered scene of the lowest cloud cover of
\* all filtered scenes and late is the chronologically last filtered scene.
C13_QualityPicksLowestCloud ==
    Returned("quality") =>
        /\ s_out.early \in GoodScenes
        /\ s_out.late \in GoodScenes
        /\ \A g \in GoodScenes :
              /\ CloudOr100(s_out.early) <= CloudOr100(g)
              /\ DayNumber(g.datetime) <= DayNumber(s_out.late.datetime)

\* The first and the last scene of a set by capture time.
Earliest(S) == CHOOSE g \in S : \A h \in S : DayNumber(g.datetime) <= DayNumber(h.datetime)
Latest(S) == CHOOSE g \in S : \A h \in S : DayNumber(h.datetime) <= DayNumber(g.datetime)

RequestedSpan == DayNumber(s_args.end_date) - DayNumber(s_args.start_date)

\* The filtered scenes whose month number differs from the start month by at
\* most 1, and those of them in a year after the start year.
MonthCandidates ==
    { g \in GoodScenes : Abs(g.datetime.m - s_args.start_date.m) <= 1 }
LaterYearCandidates ==
    { g \in MonthCandidates : g.datetime.y > s_args.start_date.y }

\* C14: in smart mode, a span of at most 300 days gives the first and last
\* filtered scenes and the short-span rationale; a longer span with both
\* restricted sets non-empty gives the first of the month candidates and the
\* last of the later-year candidates and the seasonal rationale; otherwise
\* the first and last filtered scenes and the fallback rationale.
C14_SmartBranches ==
    Returned("smart") =>
        IF RequestedSpan <= 300
        THEN /\ s_out.early = Earliest(GoodScenes)
             /\ s_out.late = Latest(GoodScenes)
             /\ s_out.info.reason = "Short time period - using first and last good quality images"
        ELSE IF MonthCandidates # {} /\ LaterYearCandidates # {}
        THEN /\ s_out.early = Earliest(MonthCandidates)
             /\ s_out.late = Latest(LaterYearCandidates)
             /\ s_out.info.reason = "Seasonal matching applied"
        ELSE /\ s_out.early = Earliest(GoodScenes)
             /\ s_out.late = Latest(GoodScenes)
             /\ s_out.info.reason = "Fallback to first and last good quality images"

\* A span of 301 days was matched by season, with a filtered scene outside
\* the season left out.
C14_Witness ==
    /\ Returned("smart")
    /\ RequestedSpan = 301
    /\ s_out.info.reason = "Seasonal matching applied"
    /\ GoodScenes # MonthCandidates
    /\ s_out.early # Earliest(GoodScenes)

\* The distance in calendar months between two month numbers, December and
\* January being one apart.
CalendarMonthsApart(m1, m2) ==
    IF Abs(m1 - m2) <= 6 THEN Abs(m1 - m2) ELSE 12 - Abs(m1 - m2)

SeasonCandidates ==
    { g \in GoodScenes : CalendarMonthsApart(g.datetime.m, s_args.start_date.m) <= 1 }
SeasonLaterCandidates ==
    { g \in SeasonCandidates : g.datetime.y > s_args.start_date.y }

\* C15: over a long span, seasonal matching in smart mode keeps every
\* filtered scene whose capture month is within one calendar month of the
\* start month, December and January being one month apart.
C15_SeasonWrapsAroundYear ==
    (Returned("smart") /\ RequestedSpan > 300
        /\ SeasonCandidates # {} /\ SeasonLaterCandidates # {}) =>
        /\ s_out.info.reason = "Seasonal matching applied"
        /\ s_out.early = Earliest(SeasonCandidates)
        /\ s_out.late = Latest(SeasonLaterCandidates)

\* C16: whenever find_best_image_pair returns, in any mode and for any dates
\* and catalog answer, the early scene was captured no later than the late one.
C16_EarlyNotAfterLate ==
    (s_pc = "done" /\ ~s_out.raised) =>
        DayNumber(s_out.early.datetime) <= DayNumber(s_out.late.datetime)

-----------------------------------------------------------------------------
(* compute_ndvi                                                            *)

\* The largest number of pixels of a raster, and the largest digital number
\* of a band pixel.
MaxPixels == 2
MaxDN == 3

\* Floating-point values are modelled exactly: a finite value is the fraction
\* num/den with den > 0, and nan and the infinities are values of their own.
Num(n, d) == [kind |-> "num", num |-> n, den |-> d]
NaN == [kind |-> "nan", num |-> 0, den |-> 1]
Inf(sign) == [kind |-> "inf", num |-> sign, den |-> 1]

\* x / y of two finite values given as integers over a common unit: numpy
\* yields nan for 0/0 and an infinity for x/0.
Divide(x, y) ==
    IF y = 0 THEN (IF x = 0 THEN NaN ELSE Inf(IF x > 0 THEN 1 ELSE -1))
    ELSE IF y > 0 THEN Num(x, y) ELSE Num(-x, -y)

\* np.clip(v, -1, 1): nan stays nan.
Clip1(v) ==
    CASE v.kind = "nan" -> NaN
      [] v.kind = "inf" -> Num(v.num, 1)
      [] OTHER -> IF v.num > v.den THEN Num(1, 1)
                  ELSE IF v.num < -v.den THEN Num(-1, 1)
                  ELSE v

\* The scale factor 0.0001 and the guard 1e-10, in units of 1e-10.
ScaleFactor == 1000000
Epsilon == 1

\* band.astype(np.float32) * 0.0001
Scaled(dn) == dn * ScaleFactor

\* A plausible bug: the denominator without the guard.
ndvi_denominator_unguarded(red_scaled, nir_scaled) == nir_scaled + red_scaled

\* nir_scaled + red_scaled + 1e-10
ndvi_denominator(red_scaled, nir_scaled) == nir_scaled + red_scaled + Epsilon

\* compute_ndvi on one pixel: the value, and the divisor that was used.
ndvi_pixel(red, nir) ==
    LET red_scaled == Scaled(red)
        nir_scaled == Scaled(nir)
        divisor == ndvi_denominator(red_scaled, nir_scaled)
    IN  [value |-> Clip1(Divide(nir_scaled - red_scaled, divisor)), divisor |-> divisor]

\* compute_ndvi(red, nir) on two arrays of one shape.
compute_ndvi(red, nir) == [i \in DOMAIN red |-> ndvi_pixel(red[i], nir[i])]

\* Band arrays of one shape with finite non-negative values.
BandPairs ==
    UNION { [red : [1..k -> 0..MaxDN], nir : [1..k -> 0..MaxDN]] : k \in 1..MaxPixels }

NdviInit == n_pc = "call" /\ n_bands \in BandPairs /\ n_out = <<>>

ComputeNdvi ==
    /\ n_pc = "call"
    /\ n_out' = compute_ndvi(n_bands.red, n_bands.nir)
    /\ n_pc' = "done"
    /\ UNCHANGED <<n_bands, bandVars, encVars, storeVars, idVars, fetchVars, selVars, writerVars, gradVars>>

InitNdvi == NdviInit /\ BandIdle /\ EncIdle /\ StoreIdle /\ IdIdle /\ FetchIdle /\ SelIdle /\ WriterIdle /\ GradIdle
NextNdvi == ComputeNdvi
SpecNdvi == InitNdvi /\ [][NextNdvi]_vars

\* C17: every element of compute_ndvi(red, nir) is a number in [-1, 1], and
\* where red = nir = 0 the element is 0 and the divisor is not zero.
C17_NdviInRange ==
    n_pc = "done" =>
        \A i \in DOMAIN n_out :
            /\ n_out[i].value.kind = "num"
            /\ -n_out[i].value.den <= n_out[i].value.num
            /\ n_out[i].value.num <= n_out[i].value.den
            /\ n_out[i].divisor # 0
            /\ (n_bands.red[i] = 0 /\ n_bands.nir[i] = 0) => n_out[i].value.num = 0

\* A raster with a pixel where both bands are 0 and a pixel where red exceeds nir.
C17_Witness ==
    /\ n_pc = "done"
    /\ \E i \in DOMAIN n_out : n_bands.red[i] = 0 /\ n_bands.nir[i] = 0
    /\ \E i \in DOMAIN n_out : n_out[i].value.num < 0

-----------------------------------------------------------------------------
(* read_band                                                               *)

\* The largest width and height of a source raster, and the largest max_size.
MaxSide == 6
MaxSize == 4

RECURSIVE GCD(_, _)
GCD(a, b) == IF b = 0 THEN a ELSE GCD(b, a % b)

RECURSIVE IsPowerOfTwo(_)
IsPowerOfTwo(n) == n = 1 \/ (n > 1 /\ n % 2 = 0 /\ IsPowerOfTwo(n \div 2))

Max(a, b) == IF a >= b THEN a ELSE b

\* min(max_size / src.width, max_size / src.height), as the fraction
\* max_size / max(width, height).
scale_of(width, height, max_size) == Num(max_size, Max(width, height))

\* int(dim * scale) in double arithmetic. The quotient scale is exact when its
\* reduced denominator is a power of two; otherwise it is rounded, and a
\* product that is an integer in exact arithmetic may come out just below that
\* integer, so that int() gives one less.
IntOfProduct(dim, scale) ==
    LET q == (dim * scale.num) \div scale.den
        exact_quotient == IsPowerOfTwo(scale.den \div GCD(scale.num, scale.den))
        integral == (dim * scale.num) % scale.den = 0
    IN  IF integral /\ ~exact_quotient THEN {q, q - 1} ELSE {q}

\* A plausible bug: the transform is scaled by new/old instead of old/new.
pixel_ratio_inverted(src_dim, new_dim) == Num(new_dim, src_dim)

\* src.width / new_width, src.height / new_height
pixel_ratio(src_dim, new_dim) == Num(src_dim, new_dim)

\* transform * transform.scale(sx, sy): the pixel sizes a and e are multiplied
\* by sx and sy; the origin stays.
ScaleTransform(t, sx, sy) ==
    [a |-> Num(t.a.num * sx.num, t.a.den * sx.den),
     e |-> Num(t.e.num * sy.num, t.e.den * sy.den),
     origin |-> t.origin]

\* The source rasters: north-up, 10 m pixels.
SrcTransform == [a |-> Num(10, 1), e |-> Num(-10, 1), origin |-> <<500000, 3100000>>]
Sources ==
    { [width |-> w, height |-> h, transform |-> SrcTransform] :
        w \in 1..MaxSide, h \in 1..MaxSide }

\* What read_band(url, bbox, max_size) can do on a source that opens: the
\* (array shape, transform) pairs it can return and the errors it can raise.
read_band(src, max_size) ==
    IF src.width > max_size \/ src.height > max_size
    THEN LET scale == scale_of(src.width, src.height, max_size)
         IN  { IF new_width = 0 \/ new_height = 0
               THEN \* a read into an empty shape fails, and so does the division
                    [tag |-> "raise", error |-> "empty_shape"]
               ELSE [tag |-> "return",
                     shape |-> <<new_height, new_width>>,
                     transform |-> ScaleTransform(src.transform,
                                                  pixel_ratio(src.width, new_width),
                                                  pixel_ratio(src.height, new_height))] :
               new_width \in IntOfProduct(src.width, scale),
               new_height \in IntOfProduct(src.height, scale) }
    ELSE { [tag |-> "return", shape |-> <<src.height, src.width>>,
            transform |-> src.transform] }

BandInit ==
    /\ b_pc = "call"
    /\ b_src \in Sources
    /\ b_max_size \in 1..MaxSize
    /\ b_out = <<>>

\* read_band is called: the file opens and is read, or an I/O error is raised.
ReadBand ==
    /\ b_pc = "call"
    /\ \/ b_out' \in read_band(b_src, b_max_size)
       \/ b_out' = [tag |-> "raise", error |-> "RasterioIOError"]
    /\ b_pc' = "done"
    /\ UNCHANGED <<b_src, b_max_size, ndviVars, encVars, storeVars, idVars, fetchVars, selVars, writerVars, gradVars>>

InitReadBand == BandInit /\ NdviIdle /\ EncIdle /\ StoreIdle /\ IdIdle /\ FetchIdle /\ SelIdle /\ WriterIdle /\ GradIdle
NextReadBand == ReadBand
SpecReadBand == InitReadBand /\ [][NextReadBand]_vars

BandReturned == b_pc = "done" /\ b_out.tag = "return"

\* a/b = c/d for fractions of positive denominators.
SameFraction(x, y) == x.num * y.den = y.num * x.den

C26_DownsampledDimsPositive ==
    ( /\ b_pc = "done"
      /\ b_src.width > b_max_size \/ b_src.height > b_max_size
      /\ ~(b_out.tag = "raise" /\ b_out.error = "RasterioIOError") )
    => /\ b_out.tag = "return"
       /\ b_out.shape[1] >= 1
       /\ b_out.shape[2] >= 1

-----------------------------------------------------------------------------
(* save_ndvi_diff and save_individual_images                               *)

\* The largest number of pixels of a raster handed to the encoder.
MaxEncPixels == 3

\* Raster values, in tenths: index values and index differences.
RasterValues == {-6, -4, 0, 3, 6}
Rasters == UNION { [1..k -> RasterValues] : k \in 1..MaxEncPixels }

\* sorted values of an array
SortValues(q) == Values(StableSort([i \in DOMAIN q |-> [k |-> q[i], v |-> q[i]]]))

\* np.percentile(data, q), linear interpolation, in thousandths: the value at
\* position (n-1)*q/100 of the sorted data.
Percentile(data, q) ==
    LET x == SortValues(data)
        pos == (Len(x) - 1) * q
        i == pos \div 100 + 1
        r == pos % 100
    IN  IF r = 0 THEN 100 * x[i] ELSE 100 * x[i] + r * (x[i + 1] - x[i])

\* .astype(np.uint8) of nan (the quotient 0/0) is not defined: the byte is any.
UndefinedBytes == 0..255

\* percentile_stretch(data, 2, 98): the images it can give.
percentile_stretch(data) ==
    LET lower_val == Percentile(data, 2)
        upper_val == Percentile(data, 98)
        stretched == [i \in DOMAIN data |->
                        IF 100 * data[i] < lower_val THEN lower_val
                        ELSE IF 100 * data[i] > upper_val THEN upper_val
                        ELSE 100 * data[i]]
    IN  IF upper_val - lower_val = 0
        THEN { [i \in DOMAIN data |-> b] : b \in UndefinedBytes }
        ELSE { [i \in DOMAIN data |->
                  ((stretched[i] - lower_val) * 255) \div (upper_val - lower_val)] }

SeqMin(q) == CHOOSE v \in {q[i] : i \in DOMAIN q} : \A j \in DOMAIN q : v <= q[j]
SeqMax(q) == CHOOSE v \in {q[i] : i \in DOMAIN q} : \A j \in DOMAIN q : v >= q[j]

\* A plausible bug: a fixed scale for the whole range of differences.
abs_max_fixed(diff) == 10

\* abs_max = max(abs(diff.min()), abs(diff.max()))
abs_max(diff) == Max(Abs(SeqMin(diff)), Abs(SeqMax(diff)))

\* ((diff + abs_max) / (2 * abs_max) * 255).astype(np.uint8): the images it
\* can give.
normalize_difference(diff) ==
    LET m == abs_max(diff)
    IN  IF 2 * m = 0
        THEN { [i \in DOMAIN diff |-> b] : b \in UndefinedBytes }
        ELSE { [i \in DOMAIN diff |-> ((diff[i] + m) * 255) \div (2 * m)] }

\* colormaps_to_try of save_ndvi_diff and of save_individual_images
DifferencePalettes == <<"JET", "HSV", "RAINBOW", "COOL", "AUTUMN", "SUMMER", "SPRING">>
MagnitudePalettes ==
    <<"SUMMER", "SPRING", "JET", "HSV", "RAINBOW", "AUTUMN", "COOL", "HOT">>
PalettesOf(mode) == IF mode = "difference" THEN DifferencePalettes ELSE MagnitudePalettes
CustomOf(mode) == IF mode = "difference" THEN "Custom diverging" ELSE "Custom vegetation"

\* cv2.applyColorMap(normalized, id): each pixel is looked up in the palette.
applyColorMap(normalized, name) ==
    [i \in DOMAIN normalized |-> [lut |-> name, index |-> normalized[i]]]

\* The (blue, green, red) values create_custom_diverging_colormap computes for
\* a pixel, before they are stored.
diverging_bgr(val) ==
    IF val < 127
    THEN << (100 * (127 - val)) \div 127,
            (100 * (127 - val)) \div 127,
            (255 * (127 - val)) \div 127 + 100 >>
    ELSE IF val > 127
    THEN << (100 * (255 - val)) \div 128,
            (255 * (val - 127)) \div 128 + 100,
            (100 * (255 - val)) \div 128 >>
    ELSE <<128, 128, 128>>

\* The same for create_custom_vegetation_colormap: intensity = val / 255.0,
\* with the branches intensity < 0.3 and intensity < 0.7.
vegetation_bgr(val) ==
    IF 10 * val < 3 * 255
    THEN << 50 + (100 * val) \div 255,
            50 + (150 * val) \div 255,
            150 + (100 * val) \div 255 >>
    ELSE IF 10 * val < 7 * 255
    THEN << (50 * (357 - 2 * val)) \div 204,
            150 + (100 * (2 * val - 153)) \div 204,
            (200 * (357 - 2 * val)) \div 204 >>
    ELSE << (50 * (510 - 2 * val)) \div 153,
            200 + (55 * (2 * val - 357)) \div 153,
            (50 * (510 - 2 * val)) \div 153 >>

custom_bgr(mode, val) == IF mode = "difference" THEN diverging_bgr(val) ELSE vegetation_bgr(val)

\* colored[i, j] = [b, g, r] on a uint8 array: a value above 255 wraps, or, with
\* a NumPy that rejects out-of-range Python integers, raises OverflowError.
Overflows(mode, normalized) ==
    \E i \in DOMAIN normalized : \E c \in 1..3 : custom_bgr(mode, normalized[i])[c] > 255
Wrapped(mode, normalized) ==
    [i \in DOMAIN normalized |->
        [c \in 1..3 |-> custom_bgr(mode, normalized[i])[c] % 256]]

EncRunning == [tag |-> "running", value |-> ""]

EncInit ==
    /\ e_pc = "normalize"
    /\ e_mode \in {"difference", "magnitude"}
    /\ e_raster \in Rasters
    /\ e_normalized = <<>>
    /\ e_tried = <<>>
    /\ e_colored = None
    /\ e_out = EncRunning

\* The normalisation to 0..255 that precedes the colour mapping.
Normalize ==
    /\ e_pc = "normalize"
    /\ e_normalized' \in (IF e_mode = "difference" THEN normalize_difference(e_raster)
                          ELSE percentile_stretch(e_raster))
    /\ e_pc' = "palette"
    /\ UNCHANGED <<e_mode, e_raster, e_tried, e_colored, e_out>>
    /\ UNCHANGED <<ndviVars, bandVars, storeVars, idVars, fetchVars, selVars, writerVars, gradVars>>

\* One iteration of `for colormap_id, name in colormaps_to_try`: applyColorMap
\* returns and the loop breaks, or it raises and the loop continues.
TryPalette ==
    /\ e_pc = "palette"
    /\ Len(e_tried) < Len(PalettesOf(e_mode))
    /\ LET name == PalettesOf(e_mode)[Len(e_tried) + 1]
       IN  \/ /\ e_colored' = Some([palette |-> name,
                                    pixels |-> applyColorMap(e_normalized, name)])
              /\ e_tried' = Append(e_tried, [name |-> name, ok |-> TRUE])
              /\ e_pc' = "write"
           \/ /\ e_tried' = Append(e_tried, [name |-> name, ok |-> FALSE])
              /\ UNCHANGED <<e_colored, e_pc>>
    /\ UNCHANGED <<e_mode, e_raster, e_normalized, e_out>>
    /\ UNCHANGED <<ndviVars, bandVars, storeVars, idVars, fetchVars, selVars, writerVars, gradVars>>

\* `if colored is None`: the loop ended without a palette; the custom colormap
\* is computed.
CustomColormap ==
    /\ e_pc = "palette"
    /\ Len(e_tried) = Len(PalettesOf(e_mode))
    /\ \/ /\ e_colored' = Some([palette |-> CustomOf(e_mode),
                                pixels |-> Wrapped(e_mode, e_normalized)])
          /\ e_pc' = "write"
          /\ UNCHANGED e_out
       \/ /\ Overflows(e_mode, e_normalized)
          /\ e_out' = [tag |-> "raise", value |-> "OverflowError"]
          /\ e_pc' = "done"
          /\ UNCHANGED e_colored
    /\ UNCHANGED <<e_mode, e_raster, e_normalized, e_tried>>
    /\ UNCHANGED <<ndviVars, bandVars, storeVars, idVars, fetchVars, selVars, writerVars, gradVars>>

\* cv2.imwrite(output_path, colored): the path is returned on success, an
\* exception raised otherwise.
WriteImage ==
    /\ e_pc = "write"
    /\ \/ e_out' = [tag |-> "return", value |-> "output_path"]
       \/ e_out' = [tag |-> "raise", value |-> "Failed to save image"]
    /\ e_pc' = "done"
    /\ UNCHANGED <<e_mode, e_raster, e_normalized, e_tried, e_colored>>
    /\ UNCHANGED <<ndviVars, bandVars, storeVars, idVars, fetchVars, selVars, writerVars, gradVars>>

InitEncode == EncInit /\ NdviIdle /\ BandIdle /\ StoreIdle /\ IdIdle /\ FetchIdle /\ SelIdle /\ WriterIdle /\ GradIdle
NextEncode == Normalize \/ TryPalette \/ CustomColormap \/ WriteImage
SpecEncode == InitEncode /\ [][NextEncode]_vars

\* C19: the palettes are tried in their listed order; the first that applies
\* is used and recorded and none is tried after it; the custom gradient is
\* used exactly when every listed palette failed; a colour-mapped image is
\* produced in every case, so that the encoder raises only when the image
\* write fails.
C19_PaletteFallback ==
    /\ \A i \in DOMAIN e_tried :
          /\ i <= Len(PalettesOf(e_mode))
          /\ e_tried[i].name = PalettesOf(e_mode)[i]
          /\ e_tried[i].ok => i = Len(e_tried)
    /\ ~e_colored.isNone =>
          IF e_colored.val.palette = CustomOf(e_mode)
          THEN /\ Len(e_tried) = Len(PalettesOf(e_mode))
               /\ \A i \in DOMAIN e_tried : ~e_tried[i].ok
          ELSE /\ e_tried # <<>>
               /\ e_tried[Len(e_tried)].ok
               /\ e_colored.val.palette = e_tried[Len(e_tried)].name
    /\ e_pc \in {"write", "done"} => ~e_colored.isNone
    /\ (e_pc = "done" /\ e_out.tag = "raise") => e_out.value = "Failed to save image"

NormalizationDivisor(mode, raster) ==
    IF mode = "difference" THEN 2 * abs_max(raster)
    ELSE Percentile(raster, 98) - Percentile(raster, 2)

\* C28: for every raster handed to the encoder, a constant index raster and
\* the all-zero difference raster included, the divisor of the normalisation
\* is not zero.
C28_DivisorNonZero ==
    e_pc # "normalize" => NormalizationDivisor(e_mode, e_raster) # 0

-----------------------------------------------------------------------------
(* create_custom_diverging_colormap and create_custom_vegetation_colormap  *)
(* on every value a normalized raster can hold.                            *)

\* The values of a uint8 pixel.
PixelValues == 0..255

GradInit ==
    /\ g_pc = "call"
    /\ g_mode \in {"difference", "magnitude"}
    /\ g_val \in PixelValues
    /\ g_out = <<>>

\* The body of the pixel loop: the [blue, green, red] list is computed.
ComputePixel ==
    /\ g_pc = "call"
    /\ g_out' = custom_bgr(g_mode, g_val)
    /\ g_pc' = "computed"
    /\ UNCHANGED <<g_mode, g_val>>
    /\ UNCHANGED <<storeVars, idVars, fetchVars, selVars, rasterVars, writerVars>>

InitGradient ==
    GradInit /\ StoreIdle /\ IdIdle /\ FetchIdle /\ SelIdle /\ RasterIdle /\ WriterIdle
NextGradient == ComputePixel
SpecGradient == InitGradient /\ [][NextGradient]_vars

\* C27: for every normalized value in 0..255 each of the three channel values
\* the synthesized gradients compute lies in 0..255 before it is stored in
\* the 8-bit image.
C27_GradientChannelsInByteRange ==
    g_pc = "computed" => \A c \in 1..3 : g_out[c] \in PixelValues

====
